---- MODULE Spec2Model ----
(***************************************************************************)
(* Document question-answering service: PDF acquisition, text extraction   *)
(* and chunking (PDFProcessor), the relevance index (EmbeddingService),    *)
(* answer generation and orchestration (QAService) and the HTTP handler    *)
(* (run_qa).                                                               *)
(*                                                                         *)
(* Representation of text.  A character is a one-character string; the     *)
(* strings "NUL" and "FFFD" stand for the characters U+0000 and U+FFFD.    *)
(* A Python str that the code only ever splits on whitespace is held as    *)
(* the sequence of its whitespace-separated tokens, each token a sequence  *)
(* of characters; a str whose characters matter (a question, a model       *)
(* reply) is held as a sequence of characters.                             *)
(***************************************************************************)
EXTENDS Integers, Sequences, FiniteSets, TLC

VARIABLES
    chunks,      \* EmbeddingService.chunks
    embeddings,  \* EmbeddingService.embeddings
    client,      \* EmbeddingService.client: <<"genai.Client">>, or None
    text_chunks, \* the keyword-only EmbeddingService (HealthLink): its chunks
    call,        \* unit harness: the operation under test and its arguments
    ret,         \* unit harness: Pending, or what the operation returned or raised
    setup,       \* the deployment checked: the request slots in use and the requests sent
    running,     \* the slot whose process_qa_request coroutine holds the event loop, or 0
    pc,          \* per slot: where the handling of its request stands
    raw,         \* per slot: the request body as sent
    req,         \* per slot: the validated QARequest
    loc,         \* per slot: the locals of download_pdf, process_pdf, process_qa_request
    resp,        \* per slot: the HTTP response
    log,         \* per slot: how often each collaborator was called (history)
    produced     \* per slot: per loop iteration, the question taken and what came of it (history)

index_vars == <<chunks, embeddings, client>>
text_vars == <<text_chunks>>
unit_vars == <<call, ret>>
req_vars == <<setup, running, pc, raw, req, loc, resp, log, produced>>
vars == <<chunks, embeddings, client, text_chunks, call, ret,
          setup, running, pc, raw, req, loc, resp, log, produced>>

\* Python's None, and an empty list: an Optional value is <<>> or the value
None == <<>>

Pending == [state |-> "pending"]
Returned(v) == [state |-> "returned", value |-> v]
Raised(e) == [state |-> "raised", error |-> e]

(***************************************************************************)
(* Settings (app/core/config.py)                                           *)
(***************************************************************************)
MAX_FILE_SIZE == 50 * 1024 * 1024
CHUNK_SIZE == 400
CHUNK_OVERLAP == 50
TOP_K_CHUNKS == 5
MAX_QUESTIONS == 10

\* the literal 10 of chunk_text: windows of fewer words are skipped
MIN_CHUNK_WORDS == 10

(***************************************************************************)
(* Bounds of the model                                                     *)
(***************************************************************************)
MaxPages == 3
MaxChunks == 3
MaxAsked == 2

(***************************************************************************)
(* Python helpers                                                          *)
(***************************************************************************)
Min(a, b) == IF a < b THEN a ELSE b
Max(a, b) == IF a > b THEN a ELSE b

\* s[a:b] for 0 <= a, 0 <= b
Slice(s, a, b) == SubSeq(s, a + 1, Min(b, Len(s)))

Range(f) == {f[i] : i \in DOMAIN f}

RECURSIVE ConcatRange(_, _, _)
\* ss[lo] \o ... \o ss[hi], by halving
ConcatRange(ss, lo, hi) ==
    IF lo > hi THEN <<>>
    ELSE IF lo = hi THEN ss[lo]
    ELSE LET mid == (lo + hi) \div 2 IN
         ConcatRange(ss, lo, mid) \o ConcatRange(ss, mid + 1, hi)

\* the concatenation of a sequence of sequences
Concat(ss) == ConcatRange(ss, 1, Len(ss))

Digit == <<"0", "1", "2", "3", "4", "5", "6", "7", "8", "9">>

RECURSIVE Digits(_)
\* str(n) for n >= 0
Digits(n) == IF n < 10 THEN <<Digit[n + 1]>>
             ELSE Append(Digits(n \div 10), Digit[(n % 10) + 1])

RECURSIVE JoinFrom(_, _, _)
JoinFrom(sep, ss, i) ==
    IF i > Len(ss) THEN <<>>
    ELSE IF i = Len(ss) THEN ss[i]
    ELSE ss[i] \o sep \o JoinFrom(sep, ss, i + 1)

\* sep.join(ss)
Join(sep, ss) == JoinFrom(sep, ss, 1)

NUL == "NUL"
FFFD == "FFFD"
SPACE == " "

RECURSIVE SplitOn(_, _, _)
\* the non-empty maximal runs of s that hold no character of seps, in order;
\* cur is the run being read
SplitOn(s, seps, cur) ==
    IF s = <<>>
    THEN IF cur = <<>> THEN <<>> ELSE <<cur>>
    ELSE IF Head(s) \in seps
         THEN (IF cur = <<>> THEN <<>> ELSE <<cur>>) \o SplitOn(Tail(s), seps, <<>>)
         ELSE SplitOn(Tail(s), seps, Append(cur, Head(s)))

(***************************************************************************)
(* PDFProcessor (HealthLink/app/services/pdf_processor.py)                 *)
(***************************************************************************)

\* _clean_text on a page given as its whitespace-separated tokens:
\* ' '.join(text.split()) keeps the tokens; replacing U+0000 and U+FFFD by a
\* space cuts a token at those characters; strip() removes what is left at
\* the ends.  The result is the sequence of words of the cleaned text.
CleanText(tokens) ==
    Concat([t \in 1..Len(tokens) |-> SplitOn(tokens[t], {NUL, FFFD}, <<>>)])

RECURSIVE ExtractPages(_, _, _)
\* the page loop of extract_text_from_pdf: page_num counts from 0
ExtractPages(doc, page_num, text_pages) ==
    IF page_num >= Len(doc) THEN text_pages
    ELSE LET text == CleanText(doc[page_num + 1]) IN
         IF text # <<>>
         THEN ExtractPages(doc, page_num + 1, Append(text_pages, <<text, page_num + 1>>))
         ELSE ExtractPages(doc, page_num + 1, text_pages)

ExtractTextFromPdf(doc) == ExtractPages(doc, 0, <<>>)

\* range step of the window loop
StepNoOverlap == CHUNK_SIZE
Step == CHUNK_SIZE - CHUNK_OVERLAP

\* the counter after a window was skipped: `continue` leaves it alone
IdAfterSkipCounted(chunk_id) == chunk_id + 1
IdAfterSkip(chunk_id) == chunk_id

DocumentChunk(content, chunk_id, page_number) ==
    [content |-> content, chunk_id |-> chunk_id, page_number |-> page_number,
     embedding |-> None]

RECURSIVE ChunkWindows(_, _, _, _)
\* the inner loop of chunk_text: for i in range(0, len(words), step);
\* acc is [chunks, chunk_id]
ChunkWindows(words, page_num, i, acc) ==
    IF i >= Len(words) THEN acc
    ELSE LET chunk_words == Slice(words, i, i + CHUNK_SIZE) IN
         IF Len(chunk_words) < MIN_CHUNK_WORDS
         THEN ChunkWindows(words, page_num, i + Step,
                           [acc EXCEPT !.chunk_id = IdAfterSkip(@)])
         ELSE ChunkWindows(words, page_num, i + Step,
                           [chunks |-> Append(acc.chunks,
                                DocumentChunk(chunk_words, acc.chunk_id, page_num)),
                            chunk_id |-> acc.chunk_id + 1])

RECURSIVE ChunkPages(_, _, _)
\* the outer loop of chunk_text: for text, page_num in text_pages
ChunkPages(text_pages, p, acc) ==
    IF p > Len(text_pages) THEN acc
    ELSE ChunkPages(text_pages, p + 1,
                    ChunkWindows(text_pages[p][1], text_pages[p][2], 0, acc))

\* chunk_text: the content of a chunk, ' '.join(chunk_words), is held as its words
ChunkText(text_pages) ==
    ChunkPages(text_pages, 1, [chunks |-> <<>>, chunk_id |-> 0]).chunks

(***************************************************************************)
(* EmbeddingService (app/services/embeddings.py)                           *)
(***************************************************************************)

\* Vectors have two integer components.  A unit vector is held scaled by
\* UNIT, so that v / ||v|| is exact for the vectors the provider returns here.
UNIT == 3 * 4 * 5

\* [0.0] * 768, in two components
ZeroVector == <<0, 0>>

\* what one call of client.models.embed_content does: it raises, or returns
\* a response whose embedding is `embedding`
ProviderRaises == [kind |-> "raise"]
ProviderReturns(embedding) == [kind |-> "ok", embedding |-> embedding]

\* _get_embedding: None when there is no client or the call raised
GetEmbedding(cl, outcome) ==
    IF cl = None THEN None
    ELSE IF outcome.kind = "raise" THEN None
    ELSE outcome.embedding

\* np.linalg.norm
Norm(v) == CHOOSE n \in 0..(v[1] + v[2]) : n * n = v[1] * v[1] + v[2] * v[2]

\* embedding_array / np.linalg.norm(embedding_array)
Normalize(v) == <<(v[1] * UNIT) \div Norm(v), (v[2] * UNIT) \div Norm(v)>>

\* np.dot
Dot(u, v) == u[1] * v[1] + u[2] * v[2]

\* the vector create_vector_index stores for a chunk whose embedding call
\* gave `embedding`
StoredVector(embedding) ==
    IF embedding # None THEN Normalize(embedding) ELSE ZeroVector

\* create_vector_index(cs): outcomes[i] is what the provider does for chunk i
CreateVectorIndex(cs, outcomes) ==
    /\ chunks' = cs
    /\ embeddings' = [i \in 1..Len(cs) |-> StoredVector(GetEmbedding(client, outcomes[i]))]
    /\ UNCHANGED client

\* clear_index
ClearIndex ==
    /\ chunks' = <<>>
    /\ embeddings' = <<>>
    /\ UNCHANGED client

Upper == <<"A", "B", "C", "D", "E", "F", "G", "H", "I", "J", "K", "L", "M",
           "N", "O", "P", "Q", "R", "S", "T", "U", "V", "W", "X", "Y", "Z">>
LowerCase == <<"a", "b", "c", "d", "e", "f", "g", "h", "i", "j", "k", "l", "m",
               "n", "o", "p", "q", "r", "s", "t", "u", "v", "w", "x", "y", "z">>

LowerChar(c) ==
    IF \E i \in 1..26 : Upper[i] = c
    THEN LowerCase[CHOOSE i \in 1..26 : Upper[i] = c]
    ELSE c

\* str.lower()
Lower(s) == [i \in 1..Len(s) |-> LowerChar(s[i])]

Whitespace == {SPACE, "\t", "\n"}

\* str.split()
Split(s) == SplitOn(s, Whitespace, <<>>)

\* set(query.lower().split())
QueryWords(query) == Range(Split(Lower(query)))

\* set(chunk.content.lower().split()): the content is held as its words
ContentWords(content) == {Lower(w) : w \in Range(content)}

\* len(query_words.intersection(chunk_words))
Overlap(query, chunk) ==
    Cardinality(QueryWords(query) \cap ContentWords(chunk.content))

RECURSIVE InsertBeforeTies(_, _)
InsertBeforeTies(sorted, x) ==
    IF sorted = <<>> THEN <<x>>
    ELSE IF Head(sorted)[2] > x[2]
         THEN <<Head(sorted)>> \o InsertBeforeTies(Tail(sorted), x)
         ELSE <<x>> \o sorted

RECURSIVE InsertDesc(_, _)
\* x placed behind every pair whose score is not below its own
InsertDesc(sorted, x) ==
    IF sorted = <<>> THEN <<x>>
    ELSE IF Head(sorted)[2] >= x[2]
         THEN <<Head(sorted)>> \o InsertDesc(Tail(sorted), x)
         ELSE <<x>> \o sorted

RECURSIVE SortFrom(_, _, _)
SortFrom(pairs, i, acc) ==
    IF i > Len(pairs) THEN acc
    ELSE SortFrom(pairs, i + 1, InsertDesc(acc, pairs[i]))

\* list.sort(key=lambda x: x[1], reverse=True): stable, descending by score
Unsorted(pairs) == pairs
SortByScoreDesc(pairs) == SortFrom(pairs, 1, <<>>)

\* [chunk for chunk, score in pairs]
ChunksOf(pairs) == [i \in 1..Len(pairs) |-> pairs[i][1]]

\* the scored_chunks list of the keyword branch
ScoredChunks(cs, query) ==
    LET all == [i \in 1..Len(cs) |-> <<cs[i], Overlap(query, cs[i])>>]
        Positive(pr) == pr[2] > 0
    IN  SelectSeq(all, Positive)

RECURSIVE FillAnyChunk(_, _, _, _, _)
FillAnyChunk(cs, i, similar, used_chunk_ids, top_k) ==
    IF i > Len(cs) THEN similar
    ELSE IF Len(similar) < top_k
         THEN FillAnyChunk(cs, i + 1, Append(similar, cs[i]), used_chunk_ids, top_k)
         ELSE FillAnyChunk(cs, i + 1, similar, used_chunk_ids, top_k)

RECURSIVE FillRemaining(_, _, _, _, _)
\* the padding loop: for chunk in self.chunks, append it when its id is not
\* among used_chunk_ids and fewer than top_k chunks are held
FillRemaining(cs, i, similar, used_chunk_ids, top_k) ==
    IF i > Len(cs) THEN similar
    ELSE IF cs[i].chunk_id \notin used_chunk_ids /\ Len(similar) < top_k
         THEN FillRemaining(cs, i + 1, Append(similar, cs[i]), used_chunk_ids, top_k)
         ELSE FillRemaining(cs, i + 1, similar, used_chunk_ids, top_k)

\* the keyword branch of search_similar_chunks
KeywordSearch(cs, query, top_k) ==
    LET scored_chunks == SortByScoreDesc(ScoredChunks(cs, query))
        similar_chunks == ChunksOf(Slice(scored_chunks, 0, top_k))
        filled == IF Len(similar_chunks) < top_k
                  THEN FillRemaining(cs, 1, similar_chunks,
                         {similar_chunks[j].chunk_id : j \in 1..Len(similar_chunks)},
                         top_k)
                  ELSE similar_chunks
    IN  Slice(filled, 0, top_k)

\* the semantic branch, given a query embedding
SemanticSearch(cs, embs, query_embedding, top_k) ==
    LET query_normalized == Normalize(query_embedding)
        similarities == [i \in 1..Len(cs) |-> <<cs[i], Dot(query_normalized, embs[i])>>]
    IN  ChunksOf(Slice(SortByScoreDesc(similarities), 0, top_k))

\* `if not self.chunks`
IndexAlwaysReady(cs) == FALSE
IndexNotInitialized(cs) == cs = <<>>

\* np.dot(query_normalized, chunk_array) raises when the two vectors differ in
\* length; the handler of the semantic branch then lets the keyword branch run
ScoringFails(embs, query_embedding) ==
    \E i \in 1..Len(embs) : Len(embs[i]) # Len(query_embedding)

\* search_similar_chunks(query, top_k), the provider doing `outcome` for the
\* query; mode names the branch that produced the result
SearchSimilarChunks(cs, embs, cl, query, top_k, outcome) ==
    IF IndexNotInitialized(cs)
    THEN Raised("Failed to search similar chunks: Index not initialized. Create index first.")
    ELSE LET query_embedding ==
                 IF embs # <<>> /\ Len(embs) = Len(cs)
                 THEN GetEmbedding(cl, outcome) ELSE None
         IN  IF query_embedding # None /\ ~ScoringFails(embs, query_embedding)
             THEN [state |-> "returned", mode |-> "semantic",
                   value |-> SemanticSearch(cs, embs, query_embedding, top_k)]
             ELSE [state |-> "returned", mode |-> "keyword",
                   value |-> KeywordSearch(cs, query, top_k)]

\* search_similar_chunks assigns neither self.chunks nor self.embeddings
EmbeddingsDroppedOnFallback(embs, found) ==
    IF found.state = "returned" /\ found.mode = "keyword" THEN <<>> ELSE embs
EmbeddingsAfterSearch(embs, found) == embs

(***************************************************************************)
(* QARequest (app/models/schemas.py)                                       *)
(*                                                                         *)
(* A URL is held by the parts the pattern of validate_pdf_url tells apart: *)
(* its scheme, the kind of its host, and the document the path names.      *)
(***************************************************************************)
RECURSIVE LStrip(_)
LStrip(s) == IF s # <<>> /\ Head(s) \in Whitespace THEN LStrip(Tail(s)) ELSE s

RECURSIVE RStrip(_)
RStrip(s) ==
    IF s # <<>> /\ s[Len(s)] \in Whitespace THEN RStrip(SubSeq(s, 1, Len(s) - 1)) ELSE s

\* str.strip()
Strip(s) == RStrip(LStrip(s))

\* url_pattern.match(v): ^https?:// (domain | localhost | ip) (:port)? path $,
\* re.IGNORECASE
UrlPatternMatches(v) ==
    /\ v.scheme \in {"http", "https", "HTTP", "HTTPS"}
    /\ v.host \in {"domain", "localhost", "ip"}

\* validate_pdf_url: TRUE when it raises
UrlRejected(v) == v.scheme = "" \/ ~UrlPatternMatches(v)

\* the test of one question in validate_questions: TRUE when it raises
QuestionRejected(question) ==
    \/ question = <<>>
    \/ Strip(question) = <<>>
    \/ Len(Strip(question)) < 3

\* the list tests of validate_questions and of Field(min_length=1, max_length=10)
TooManyNever(v) == FALSE
TooMany(v) == Len(v) > MAX_QUESTIONS

\* validate_questions: TRUE when it raises
QuestionsRejected(v) ==
    \/ v = <<>>
    \/ TooMany(v)
    \/ \E i \in 1..Len(v) : QuestionRejected(v[i])

\* QARequest(**body): a validation error, or the request with its questions stripped
ValidateRequest(body) ==
    IF UrlRejected(body.documents) \/ QuestionsRejected(body.questions)
    THEN Raised("ValidationError")
    ELSE Returned([documents |-> body.documents,
                   questions |-> [i \in 1..Len(body.questions) |-> Strip(body.questions[i])]])

(***************************************************************************)
(* EmbeddingService.get_context_for_question                               *)
(***************************************************************************)
NO_CONTEXT ==
    <<"N", "o", " ", "r", "e", "l", "e", "v", "a", "n", "t", " ", "c", "o", "n",
      "t", "e", "x", "t", " ", "f", "o", "u", "n", "d", " ", "i", "n", " ", "t",
      "h", "e", " ", "d", "o", "c", "u", "m", "e", "n", "t", ".">>

\* f"[Page {chunk.page_number}]" when the page number is truthy, else
\* "[Unknown Page]"; a missing page number is held as 0, which the test
\* treats like None
PageInfoAlways(chunk) ==
    <<"[", "P", "a", "g", "e", " ">> \o Digits(chunk.page_number) \o <<"]">>
PageInfo(chunk) ==
    IF chunk.page_number # 0
    THEN <<"[", "P", "a", "g", "e", " ">> \o Digits(chunk.page_number) \o <<"]">>
    ELSE <<"[", "U", "n", "k", "n", "o", "w", "n", " ", "P", "a", "g", "e", "]">>

\* chunk.content as a str: chunk_text joined its words with one space
ContentText(chunk) == Join(<<SPACE>>, chunk.content)

\* f"{page_info} {chunk.content}"
ContextPart(chunk) == PageInfo(chunk) \o <<SPACE>> \o ContentText(chunk)

\* get_context_for_question: the context as a str
GetContextForQuestion(cs, embs, cl, question, top_k, outcome) ==
    LET similar_chunks == SearchSimilarChunks(cs, embs, cl, question, top_k, outcome) IN
    IF similar_chunks.state = "raised"
    THEN Raised("Failed to get context for question: Failed to search similar chunks: Index not initialized. Create index first.")
    ELSE IF similar_chunks.value = <<>>
    THEN [state |-> "returned", mode |-> similar_chunks.mode, value |-> NO_CONTEXT]
    ELSE [state |-> "returned", mode |-> similar_chunks.mode,
          value |-> Join(<<"\n", "\n">>,
                         [i \in 1..Len(similar_chunks.value) |->
                             ContextPart(similar_chunks.value[i])])]

(***************************************************************************)
(* QAService (app/services/qa_service.py)                                  *)
(***************************************************************************)
NOT_FOUND == <<"N", "o", "t", " ", "f", "o", "u", "n", "d", " ", "i", "n", " ",
               "d", "o", "c", "u", "m", "e", "n", "t">>

ANSWER_LABEL == <<"a", "n", "s", "w", "e", "r", ":">>

\* str.startswith
StartsWith(s, prefix) ==
    Len(s) >= Len(prefix) /\ SubSeq(s, 1, Len(prefix)) = prefix

\* what one call of client.models.generate_content does: it raises, or
\* returns a response with this text (<<>> for None and for "")
ModelRaises == [kind |-> "raise"]
ModelReturns(text) == [kind |-> "ok", text |-> text]

\* what _generate_answer gives when the call raised or gave no text
EmptyAnswer == <<>>
FailedAnswer == NOT_FOUND

\* _generate_answer, the model doing `outcome`
GenerateAnswer(question, context, outcome) ==
    IF outcome.kind = "raise" THEN FailedAnswer
    ELSE IF outcome.text = <<>> THEN FailedAnswer
    ELSE LET answer == Strip(outcome.text) IN
         IF StartsWith(Lower(answer), ANSWER_LABEL)
         THEN Strip(SubSeq(answer, 8, Len(answer)))
         ELSE answer

\* answers.append(answer)
AppendInFront(answers, answer) == <<answer>> \o answers
AppendAnswer(answers, answer) == Append(answers, answer)

\* one iteration of the question loop of process_qa_request: the answer it appends
AnswerQuestion(cs, embs, cl, question, emb_outcome, gen_outcome) ==
    LET context == GetContextForQuestion(cs, embs, cl, question, TOP_K_CHUNKS, emb_outcome) IN
    IF context.state = "raised"
    THEN NOT_FOUND
    ELSE GenerateAnswer(question, context.value, gen_outcome)

(***************************************************************************)
(* Unit harness for the chunker: documents of up to MaxPages pages         *)
(***************************************************************************)
\* the j-th word of a generated page
Word(j) == <<"w">> \o Digits(j)

WordCounts == {0, 9, 10, 355, 360, 450, 500}
PageStyles == {"plain", "lone", "inner"}

\* the tokens of a page of n words: "lone" puts a token that is a single
\* U+0000 in front, "inner" writes the first two words as one token with a
\* U+FFFD between them
RawPage(n, style) ==
    LET plain == [j \in 1..n |-> Word(j)] IN
    CASE style = "lone" -> <<<<NUL>>>> \o plain
      [] style = "inner" /\ n >= 2 ->
            <<Word(1) \o <<FFFD>> \o Word(2)>> \o SubSeq(plain, 3, n)
      [] OTHER -> plain

PageSpecs == {<<n, s>> : n \in WordCounts, s \in PageStyles}

\* documents of one style, plus the mixed-style documents of one page
DocSpecs ==
    UNION {[1..len -> {<<n, "plain">> : n \in WordCounts}] : len \in 0..MaxPages}
    \cup {<<ps>> : ps \in PageSpecs}
    \cup {<<<<500, "plain">>, <<0, "lone">>, <<450, "inner">>>>}

RawDoc(spec) == [p \in 1..Len(spec) |-> RawPage(spec[p][1], spec[p][2])]

\* EmbeddingService.__init__ with a usable API key
IndexInit ==
    /\ chunks = <<>>
    /\ embeddings = <<>>
    /\ client = <<"genai.Client">>
    /\ text_chunks = <<>>

Slots == {1, 2}

NoLocals ==
    [nb |-> 0, total_size |-> 0, pdf_content |-> 0, text_pages |-> <<>>,
     chunks |-> <<>>, i |-> 0, answers |-> <<>>, error |-> None, late |-> FALSE]
NoLog == [get |-> 0, extract |-> 0, chunk |-> 0, index |-> 0, search |-> 0, generate |-> 0]

\* no request in any slot
SlotsIdle ==
    /\ running = 0
    /\ pc = [r \in Slots |-> "idle"]
    /\ raw = [r \in Slots |-> None]
    /\ req = [r \in Slots |-> None]
    /\ loc = [r \in Slots |-> NoLocals]
    /\ resp = [r \in Slots |-> None]
    /\ log = [r \in Slots |-> NoLog]
    /\ produced = [r \in Slots |-> <<>>]

\* a harness that sends no request
NoRequests == setup = [slots |-> {}, requests |-> {}] /\ SlotsIdle

\* a deployment without a unit harness
NoUnit == call = [op |-> "none"] /\ ret = Pending

ChunkInit ==
    /\ IndexInit
    /\ NoRequests
    /\ call \in {[op |-> "chunk", spec |-> s] : s \in DocSpecs}
    /\ ret = Pending

\* extract_text_from_pdf followed by chunk_text, as process_pdf calls them
UnitChunk ==
    /\ call.op = "chunk"
    /\ ret = Pending
    /\ ret' = Returned(ChunkText(ExtractTextFromPdf(RawDoc(call.spec))))
    /\ UNCHANGED <<call, index_vars, text_vars, req_vars>>

SpecChunk == ChunkInit /\ [][UnitChunk]_vars

(***************************************************************************)
(* Properties of the chunker                                               *)
(***************************************************************************)
ChunkDone == call.op = "chunk" /\ ret.state = "returned"

spec_n(spec, p) == spec[p][1]

\* the windows the chunker is to emit for a document: <<page, start>> with
\* start a multiple of CHUNK_SIZE - CHUNK_OVERLAP below the page's word count
\* and at least 10 words from start to the window's end
ExpectedWindows(spec) ==
    {e \in (1..Len(spec)) \X (0..500) :
        /\ e[2] < spec[e[1]][1]
        /\ e[2] % (CHUNK_SIZE - CHUNK_OVERLAP) = 0
        /\ Min(CHUNK_SIZE, spec[e[1]][1] - e[2]) >= 10}

\* the place of window e in page order, then start order
WindowRank(e, E) ==
    Cardinality({f \in E : f[1] < e[1] \/ (f[1] = e[1] /\ f[2] < e[2])}) + 1

ScenarioDoc == <<<<500, "plain">>, <<0, "lone">>, <<450, "inner">>>>

\* C6: chunk_text emits, page by page, exactly the windows
\* words[i : i + CHUNK_SIZE] for i = 0, step, 2*step, ... < len(words), step =
\* CHUNK_SIZE - CHUNK_OVERLAP, without those of fewer than 10 words, each
\* tagged with its page number; pages of 500, 0 and 450 words give 2, 0 and 2
\* chunks with chunk_ids 0..3.
C6_ChunkWindows ==
    ChunkDone =>
        LET out == ret.value
            E == ExpectedWindows(call.spec)
        IN  /\ Len(out) = Cardinality(E)
            /\ \A e \in E :
                  LET c == out[WindowRank(e, E)]
                      n == spec_n(call.spec, e[1])
                  IN  /\ c.page_number = e[1]
                      /\ c.content = [j \in 1..Min(CHUNK_SIZE, n - e[2]) |-> Word(e[2] + j)]
            /\ call.spec = ScenarioDoc =>
                  /\ [k \in 1..Len(out) |-> out[k].page_number] = <<1, 1, 3, 3>>
                  /\ [k \in 1..Len(out) |-> Len(out[k].content)] = <<400, 150, 400, 100>>
                  /\ [k \in 1..Len(out) |-> out[k].chunk_id] = <<0, 1, 2, 3>>

C6_Witness ==
    ChunkDone /\ call.spec = ScenarioDoc /\ Len(ret.value) = 4

\* C7: the chunk_ids of a document are 0, 1, 2, ... in emission order, one
\* sequence over all pages, without gap where a window or a page was dropped.
C7_ChunkIds ==
    ChunkDone => \A k \in 1..Len(ret.value) : ret.value[k].chunk_id = k - 1

\* a window dropped on page 1 (355 words: the window at 350 has 5), page 2
\* dropped, and chunks on page 3
C7_Witness ==
    /\ ChunkDone
    /\ call.spec = <<<<355, "plain">>, <<0, "plain">>, <<450, "plain">>>>
    /\ Len(ret.value) = 3
    /\ ret.value[3].page_number = 3

(***************************************************************************)
(* Unit harness for the EmbeddingService: build, search, clear             *)
(***************************************************************************)
W_fee == <<"f", "e", "e">>
W_Fee == <<"F", "e", "e">>
W_due == <<"d", "u", "e">>
W_cat == <<"c", "a", "t">>
W_dog == <<"d", "o", "g">>

Contents == {<<W_Fee, W_due>>, <<W_fee>>, <<W_cat>>}

\* the page of the i-th chunk of a list: the second chunk has none
PageOfChunk(i) == IF i = 2 THEN 0 ELSE i

\* chunk lists as chunk_text numbers them: ids 0, 1, ... in list order
ChunkLists ==
    UNION {{[i \in 1..n |-> DocumentChunk(f[i], i - 1, PageOfChunk(i))] : f \in [1..n -> Contents]}
           : n \in 1..MaxChunks}

\* "fee due", " FEE  fee" and "dog"
Queries == {W_fee \o <<SPACE>> \o W_due,
            <<SPACE, "F", "E", "E", SPACE, SPACE>> \o W_fee,
            W_dog}

\* the provider of the harness: the vector it returns for a text when it
\* does not raise
VectorOfContent(content) ==
    IF Head(content) = W_Fee THEN <<3, 4>>
    ELSE IF Head(content) = W_fee THEN <<4, 3>>
    ELSE <<6, 8>>

VectorOfQuery(query) == IF query = W_dog THEN <<4, 3>> ELSE <<3, 4>>

ProviderOutcomes(v) == {ProviderRaises, ProviderReturns(v)}

\* for a query the provider may also return a vector of another length than
\* the stored ones
QueryOutcomes(query) ==
    ProviderOutcomes(VectorOfQuery(query)) \cup {ProviderReturns(<<5>>)}

\* the provider's outcomes for the chunks of cs, one per chunk
BuildOutcomes(cs) ==
    {o \in [1..Len(cs) -> {ProviderRaises} \cup {ProviderReturns(v) : v \in {<<3, 4>>, <<4, 3>>, <<6, 8>>}}] :
        \A i \in 1..Len(cs) : o[i] \in ProviderOutcomes(VectorOfContent(cs[i].content))}

\* the top_k values of the harness, the configured one among them
TopKs == {0, 1, 2, TOP_K_CHUNKS}

UnitIndexInit ==
    /\ chunks = <<>>
    /\ embeddings = <<>>
    /\ client \in {<<"genai.Client">>, None}
    /\ text_chunks = <<>>
    /\ NoRequests
    /\ call = [op |-> "__init__"]
    /\ ret = Pending

\* the harness builds on an empty index: create_vector_index overwrites both
\* fields, so a build over a built index reaches no other state
UnitCreate ==
    \E cs \in ChunkLists \cup {<<>>} :
      \E outcomes \in BuildOutcomes(cs) :
        /\ chunks = <<>>
        /\ CreateVectorIndex(cs, outcomes)
        /\ call' = [op |-> "create_vector_index", n |-> Len(cs)]
        /\ ret' = Returned(None)
        /\ UNCHANGED <<text_vars, req_vars>>

\* A search leaves the index as it is, so what a search returns after other
\* searches it also returns right after the build; after a search the harness
\* only repeats it (same query and top_k, the provider doing what it will).
Repeats(query, top_k) ==
    call.op \in {"search_similar_chunks", "get_context_for_question"} =>
        query = call.query /\ top_k = call.top_k

UnitSearch ==
    \E query \in Queries, top_k \in TopKs :
      \E outcome \in QueryOutcomes(query) :
        /\ Repeats(query, top_k)
        /\ call' = [op |-> "search_similar_chunks", query |-> query, top_k |-> top_k,
                    outcome |-> outcome]
        /\ ret' = SearchSimilarChunks(chunks, embeddings, client, query, top_k, outcome)
        /\ embeddings' = EmbeddingsAfterSearch(embeddings, ret')
        /\ UNCHANGED <<chunks, client, text_vars, req_vars>>

UnitContext ==
    \E query \in Queries, top_k \in TopKs :
      \E outcome \in QueryOutcomes(query) :
        /\ Repeats(query, top_k)
        /\ call' = [op |-> "get_context_for_question", query |-> query, top_k |-> top_k,
                    outcome |-> outcome]
        /\ ret' = GetContextForQuestion(chunks, embeddings, client, query, top_k, outcome)
        /\ embeddings' = EmbeddingsAfterSearch(embeddings, ret')
        /\ UNCHANGED <<chunks, client, text_vars, req_vars>>

UnitClear ==
    /\ ClearIndex
    /\ call' = [op |-> "clear_index"]
    /\ ret' = Returned(None)
    /\ UNCHANGED <<text_vars, req_vars>>

UnitIndexNext == UnitCreate \/ UnitSearch \/ UnitContext \/ UnitClear

SpecIndex == UnitIndexInit /\ [][UnitIndexNext]_vars

(***************************************************************************)
(* Properties of the EmbeddingService                                      *)
(***************************************************************************)
IsUnitVector(v) == Dot(v, v) = UNIT * UNIT

\* C9: after create_vector_index the index is consistent: every chunk has a
\* normalized embedding vector from the provider, or the index is in
\* keyword-fallback mode (no embeddings, so no chunk is scored semantically);
\* never partially semantic.
C9_IndexConsistent ==
    chunks # <<>> =>
        \/ /\ Len(embeddings) = Len(chunks)
           /\ \A i \in 1..Len(chunks) : IsUnitVector(embeddings[i])
        \/ embeddings = <<>>

KeywordDone ==
    /\ call.op = "search_similar_chunks"
    /\ ret.state = "returned"
    /\ ret.mode = "keyword"

\* the relevance order of the keyword branch: higher score first, then lower id
Before(query, c, d) ==
    \/ Overlap(query, c) > Overlap(query, d)
    \/ Overlap(query, c) = Overlap(query, d) /\ c.chunk_id < d.chunk_id

\* C10: a keyword search returns the chunks of positive overlap score in
\* descending score order, ties in ascending chunk_id, cut at k; when fewer
\* than k scored positively it goes on with the chunks not yet selected in
\* ascending chunk_id, until k chunks are returned or the pool is exhausted.
C10_KeywordSearch ==
    KeywordDone =>
        LET q == call.query
            k == call.top_k
            R == ret.value
            pool == Range(chunks)
            pos == {c \in pool : Overlap(q, c) > 0}
            m == Min(k, Cardinality(pos))
            head == {R[j] : j \in 1..m}
            tail == {R[j] : j \in (m + 1)..Len(R)}
        IN  /\ Len(R) = Min(k, Len(chunks))
            /\ Range(R) \subseteq pool
            /\ \A a, b \in 1..Len(R) : a # b => R[a] # R[b]
            \* the scored part
            /\ head \subseteq pos
            /\ \A a, b \in 1..m : a < b => Before(q, R[a], R[b])
            /\ \A c \in pos \ head : \A d \in head : Before(q, d, c)
            \* the padding
            /\ tail \cap pos = {}
            /\ \A a, b \in (m + 1)..Len(R) : a < b => R[a].chunk_id < R[b].chunk_id
            /\ \A c \in pool \ (pos \cup tail) : \A d \in tail : d.chunk_id < c.chunk_id

\* a keyword search with a tie among the scored chunks and with padding
C10_Witness ==
    /\ KeywordDone
    /\ Len(chunks) = 3
    /\ call.top_k = TOP_K_CHUNKS
    /\ Cardinality({c \in Range(chunks) : Overlap(call.query, c) > 0}) = 2
    /\ \E c, d \in Range(chunks) :
          c # d /\ Overlap(call.query, c) = 1 /\ Overlap(call.query, d) = 1


SearchDone ==
    /\ call.op = "search_similar_chunks"
    /\ ret.state = "returned"

\* C11: whatever the mode, a search returns at most min(k, pool size) chunks,
\* each of them a chunk of the index and none of them twice (so the padding
\* of the keyword branch adds no chunk already selected); repeated on the
\* same index with the same scores it returns the same sequence.
C11_TopKBounded ==
    /\ [](SearchDone =>
            /\ Len(ret.value) <= Min(call.top_k, Len(chunks))
            /\ Range(ret.value) \subseteq Range(chunks)
            /\ \A a, b \in 1..Len(ret.value) : a # b => ret.value[a] # ret.value[b])
    /\ [][(/\ SearchDone
           /\ SearchDone'
           /\ call' = call
           /\ ret'.mode = ret.mode
           /\ chunks' = chunks
           /\ embeddings' = embeddings) => ret'.value = ret.value]_vars

\* a semantic search asked for more chunks than the index holds
C11_Witness ==
    /\ SearchDone
    /\ ret.mode = "semantic"
    /\ Len(chunks) = 3
    /\ call.top_k = TOP_K_CHUNKS
    /\ Len(ret.value) = 3

SemanticDone == SearchDone /\ ret.mode = "semantic"

\* the score of the semantic branch for a chunk of the index
Similarity(query, c) ==
    LET q == Normalize(VectorOfQuery(query))
        e == embeddings[c.chunk_id + 1]
    IN  q[1] * e[1] + q[2] * e[2]

\* the relevance order of the semantic branch: higher score first, then lower id
Above(query, c, d) ==
    \/ Similarity(query, c) > Similarity(query, d)
    \/ Similarity(query, c) = Similarity(query, d) /\ c.chunk_id < d.chunk_id

\* C12: a semantic search returns the first k chunks of the index ordered by
\* descending dot product of stored vector and query vector, chunks of equal
\* score in ascending chunk_id.
C12_SemanticOrder ==
    SemanticDone =>
        LET q == call.query
            R == ret.value
        IN  /\ Len(R) = Min(call.top_k, Len(chunks))
            /\ Range(R) \subseteq Range(chunks)
            /\ \A a, b \in 1..Len(R) : a < b => Above(q, R[a], R[b])
            /\ \A c \in Range(chunks) \ Range(R) : \A d \in Range(R) : Above(q, d, c)

\* two chunks of equal score ahead of the chunk with the lowest id
C12_Witness ==
    /\ SemanticDone
    /\ Len(ret.value) = 3
    /\ ret.value[1].chunk_id = 1
    /\ ret.value[2].chunk_id = 2
    /\ ret.value[3].chunk_id = 0
    /\ Similarity(call.query, ret.value[1]) = Similarity(call.query, ret.value[2])
    /\ Similarity(call.query, ret.value[2]) > Similarity(call.query, ret.value[3])

RetrievalCalled == call.op \in {"search_similar_chunks", "get_context_for_question"}

\* C14: search_similar_chunks and get_context_for_question, called on an
\* index that holds no chunk (never built, or cleared by clear_index), raise
\* the "Index not initialized" error and return nothing.
C14_IndexNotReady ==
    (RetrievalCalled /\ chunks = <<>>) =>
        /\ ret.state = "raised"
        /\ ret.error \in
             {"Failed to search similar chunks: Index not initialized. Create index first.",
              "Failed to get context for question: Failed to search similar chunks: Index not initialized. Create index first."}

\* get_context_for_question on an index without chunks
C14_Witness ==
    /\ call.op = "get_context_for_question"
    /\ chunks = <<>>
    /\ embeddings = <<>>
    /\ ret.state = "raised"

\* C15: create_vector_index called with an empty chunk sequence raises an
\* index-build error.
C15_EmptyBuildRaises ==
    (call.op = "create_vector_index" /\ call.n = 0) => ret.state = "raised"

ContextDone ==
    /\ call.op = "get_context_for_question"
    /\ ret.state = "returned"

UnknownPage == <<"[", "U", "n", "k", "n", "o", "w", "n", " ", "P", "a", "g", "e", "]">>

\* the tag a chunk is to carry
PageTag(c) ==
    IF c.page_number = 0 THEN UnknownPage
    ELSE <<"[", "P", "a", "g", "e", " ">> \o Digits(c.page_number) \o <<"]">>

RECURSIVE SpacedWords(_, _)
SpacedWords(words, i) ==
    IF i > Len(words) THEN <<>>
    ELSE (IF i > 1 THEN <<" ">> ELSE <<>>) \o words[i] \o SpacedWords(words, i + 1)

RECURSIVE ContextOf(_, _)
\* the chunks of R from the i-th on, each as tag, space and content, with a
\* blank line between two of them
ContextOf(R, i) ==
    IF i > Len(R) THEN <<>>
    ELSE (IF i > 1 THEN <<"\n", "\n">> ELSE <<>>)
         \o PageTag(R[i]) \o <<" ">> \o SpacedWords(R[i].content, 1)
         \o ContextOf(R, i + 1)

\* what top-K retrieval returns for the call that is in `call`, in the mode
\* that answered it
Retrieved ==
    IF ret.mode = "semantic"
    THEN SemanticSearch(chunks, embeddings, VectorOfQuery(call.query), call.top_k)
    ELSE KeywordSearch(chunks, call.query, call.top_k)

\* C16: get_context_for_question returns the retrieved chunks in retrieval
\* order, each as "[Page N]" (or "[Unknown Page]" when it has no page number),
\* a space and its content, with a blank line between chunks; for an empty
\* retrieval result it returns "No relevant context found in the document."
C16_ContextFormat ==
    ContextDone =>
        IF Retrieved = <<>>
        THEN /\ call.top_k = 0
             /\ Len(ret.value) = 42
             /\ SubSeq(ret.value, 1, 19) = <<"N", "o", " ", "r", "e", "l", "e", "v", "a", "n", "t",
                                             " ", "c", "o", "n", "t", "e", "x", "t">>
             /\ SubSeq(ret.value, 20, 42) = <<" ", "f", "o", "u", "n", "d", " ", "i", "n", " ", "t",
                                              "h", "e", " ", "d", "o", "c", "u", "m", "e", "n", "t", ".">>
        ELSE ret.value = ContextOf(Retrieved, 1)

\* three chunks in relevance order 1, 2, 0; the chunk with id 1 has no page
C16_Witness ==
    /\ ContextDone
    /\ ret.mode = "semantic"
    /\ Len(Retrieved) = 3
    /\ Retrieved[1].chunk_id = 1
    /\ Retrieved[3].chunk_id = 0
    /\ SubSeq(ret.value, 1, 14) = UnknownPage

\* the provider gave no query embedding, or one that cannot be scored
QueryFailed ==
    \/ client = None
    \/ call.outcome.kind = "raise"
    \/ call.outcome.kind = "ok" /\ ScoringFails(embeddings, call.outcome.embedding)

\* C13: on a built index a query whose embedding cannot be obtained or
\* scored is answered by the keyword branch, not by an error; the search
\* changes neither chunks nor embeddings, and every query for which the
\* provider works, a later one included, is answered by the semantic branch.
C13_FallbackPerQuery ==
    /\ []((SearchDone /\ Len(embeddings) = Len(chunks)) =>
            /\ QueryFailed => ret.mode = "keyword" /\ ret.value = KeywordSearch(chunks, call.query, call.top_k)
            /\ ~QueryFailed => ret.mode = "semantic")
    /\ []((call.op = "search_similar_chunks" /\ chunks # <<>>) => ret.state = "returned")
    /\ [][call'.op = "search_similar_chunks" =>
            chunks' = chunks /\ embeddings' = embeddings]_vars

\* a build that embedded all three chunks, then a query whose embedding call raised
C13_Witness ==
    /\ SearchDone
    /\ client # None
    /\ Len(chunks) = 3
    /\ \A i \in 1..3 : IsUnitVector(embeddings[i])
    /\ call.outcome = ProviderRaises
    /\ call.top_k = 2
    /\ ret.mode = "keyword"
    /\ Len(ret.value) = 2

(***************************************************************************)
(* The world of the deployment: documents behind URLs, requests            *)
(***************************************************************************)
\* a page whose words are `head` followed by n generated words, as tokens
Page(head, n) == head \o [j \in 1..n |-> Word(j)]

\* What the transport and the PDF library give for a document: whether
\* requests.get succeeds, the content-length header (None when absent), the
\* sizes of the blocks of iter_content (0 for an empty block; a decoded block
\* may be larger than the chunk_size asked for), whether fitz opens the
\* bytes, and the tokens of each page.
DocIds == {"ok2", "ok3", "gone", "declared_big", "stream_big", "exact", "blank", "corrupt"}

SmallPdf == [opens |-> TRUE, pages |-> <<Page(<<W_fee>>, 4)>>]

Docs(d) ==
    CASE d = "ok2" ->
          [get_ok |-> TRUE, content_length |-> <<8292>>, blocks |-> <<8192, 100>>,
           pdf |-> [opens |-> TRUE,
                    pages |-> <<Page(<<W_Fee, W_due>>, 10), <<>>, Page(<<W_cat>>, 9)>>]]
      [] d = "ok3" ->
          [get_ok |-> TRUE, content_length |-> None, blocks |-> <<8192, 0, 8192>>,
           pdf |-> [opens |-> TRUE,
                    pages |-> <<Page(<<W_cat>>, 10), Page(<<W_Fee, W_due>>, 10),
                                Page(<<W_fee>>, 10)>>]]
      [] d = "gone" ->
          [get_ok |-> FALSE, content_length |-> None, blocks |-> <<>>, pdf |-> SmallPdf]
      [] d = "declared_big" ->
          [get_ok |-> TRUE, content_length |-> <<MAX_FILE_SIZE + 1>>, blocks |-> <<8192>>,
           pdf |-> SmallPdf]
      [] d = "stream_big" ->
          [get_ok |-> TRUE, content_length |-> <<100>>,
           blocks |-> <<MAX_FILE_SIZE - 8192, 8192, 1, 8192>>, pdf |-> SmallPdf]
      [] d = "exact" ->
          [get_ok |-> TRUE, content_length |-> <<MAX_FILE_SIZE>>,
           blocks |-> <<MAX_FILE_SIZE>>, pdf |-> SmallPdf]
      [] d = "blank" ->
          [get_ok |-> TRUE, content_length |-> <<100>>, blocks |-> <<100>>,
           pdf |-> [opens |-> TRUE, pages |-> <<<<>>, <<<<NUL>>>>>>]]
      [] OTHER ->
          [get_ok |-> TRUE, content_length |-> <<100>>, blocks |-> <<100>>,
           pdf |-> [opens |-> FALSE, pages |-> <<>>]]

Url(scheme, host, d) == [scheme |-> scheme, host |-> host, doc |-> d]

Q_fee_due == <<"f", "e", "e", " ", "d", "u", "e">>
Q_dog == <<" ", "d", "o", "g", " ">>
Q_short == <<" ", "a", "b">>
Q_blank == <<" ", " ", " ">>

\* the question lists a valid request may carry here
AskedLists == UNION {[1..n -> {Q_fee_due, Q_dog}] : n \in 1..MaxAsked}

Body(url, questions) == [documents |-> url, questions |-> questions]

ValidBodies ==
    {Body(Url("https", "domain", d), qs) : d \in {"ok2", "ok3"}, qs \in AskedLists}
    \cup {Body(Url("http", "ip", d), <<Q_dog>>) : d \in DocIds \ {"ok2", "ok3"}}
    \cup {Body(Url("HTTPS", "localhost", "gone"), [i \in 1..MAX_QUESTIONS |-> Q_fee_due])}

InvalidBodies ==
    {Body(Url("https", "domain", "ok2"), qs) :
        qs \in {<<>>, [i \in 1..(MAX_QUESTIONS + 1) |-> Q_fee_due],
                <<Q_fee_due, Q_short>>, <<Q_blank>>, <<Q_dog, <<>>>>}}
    \cup {Body(Url(sc, h, "ok2"), <<Q_fee_due>>) :
            sc \in {"ftp", ""}, h \in {"domain"}}
    \cup {Body(Url("https", "malformed", "ok2"), <<Q_fee_due>>)}

Bodies == ValidBodies \cup InvalidBodies

\* what the generative model may do for one prompt
GenOutcomes ==
    {ModelRaises, ModelReturns(<<>>),
     ModelReturns(<<" ", "A", "N", "S", "W", "E", "R", ":", " ", "Y", "e", "s", " ">>),
     ModelReturns(<<"N", "o">>), ModelReturns(<<" ">>)}

(***************************************************************************)
(* The HTTP handler and the pipeline, one step at a time                   *)
(***************************************************************************)
Bump(r, what) == [log EXCEPT ![r][what] = @ + 1]

DocOf(r) == Docs(req[r].documents.doc)

ValueError(msg) == [type |-> "ValueError", msg |-> msg]

\* an exception raised inside process_qa_request: control goes to its handler
Fail(r, locals, msg) ==
    /\ pc' = [pc EXCEPT ![r] = "except"]
    /\ loc' = [loc EXCEPT ![r] = [locals EXCEPT !.error = ValueError(msg)]]

\* Another request's process_qa_request holds the event loop.  The coroutine
\* never suspends: its one await chain, process_pdf and download_pdf, ends in
\* the blocking requests.get, and the index and model calls block too.  So
\* from its first step to its return nothing else of the server runs.
NeverBlocked(r) == FALSE
Blocked(r) == running \notin {0, r}

\* Wall-clock time passes inside the blocking calls; `late` says that more
\* than the 30 s given to wait_for have passed since run_qa called it.  The
\* model lets requests.get be the slow call: its timeout=30 bounds the wait
\* for each read of the socket, not the call.
Elapse(late) == {late, TRUE}

\* FastAPI builds the QARequest from the body of an authorised request
\* before it calls run_qa
Receive(r) ==
    /\ r \in setup.slots
    /\ ~Blocked(r)
    /\ pc[r] = "idle"
    /\ \E body \in setup.requests :
         LET v == ValidateRequest(body) IN
         /\ raw' = [raw EXCEPT ![r] = body]
         /\ IF v.state = "raised"
            THEN /\ pc' = [pc EXCEPT ![r] = "responded"]
                 /\ resp' = [resp EXCEPT ![r] = [status |-> 422, detail |-> v.error]]
                 /\ req' = req
            ELSE /\ pc' = [pc EXCEPT ![r] = "run_qa"]
                 /\ req' = [req EXCEPT ![r] = v.value]
                 /\ resp' = resp
    /\ UNCHANGED <<index_vars, unit_vars, text_vars, setup, running, loc, log, produced>>

\* run_qa up to the await of wait_for: the coroutine is scheduled
RunQa(r) ==
    /\ ~Blocked(r)
    /\ pc[r] = "run_qa"
    /\ IF Len(req[r].questions) > 10
       THEN /\ pc' = [pc EXCEPT ![r] = "responded"]
            /\ resp' = [resp EXCEPT ![r] =
                          [status |-> 400, detail |-> "Maximum 10 questions allowed"]]
       ELSE /\ pc' = [pc EXCEPT ![r] = "scheduled"]
            /\ resp' = resp
    /\ UNCHANGED <<index_vars, unit_vars, text_vars, setup, running, raw, req, loc, log, produced>>

\* the event loop runs process_qa_request: no step of it ends at an await
\* that suspends (requests.get blocks), so it runs to its end before any
\* other coroutine of the loop
Begin(r) ==
    /\ ~Blocked(r)
    /\ pc[r] = "scheduled"
    /\ running' = r
    /\ pc' = [pc EXCEPT ![r] = "get"]
    /\ UNCHANGED <<index_vars, unit_vars, text_vars, setup, raw, req, loc, resp, log, produced>>

\* the running total is over the limit
SizeNeverExceeded(total_size) == FALSE
SizeExceeded(total_size) == total_size > MAX_FILE_SIZE

\* download_pdf up to the block loop: requests.get, raise_for_status, the
\* content-length test
HttpGet(r) ==
    /\ ~Blocked(r)
    /\ pc[r] = "get"
    /\ log' = Bump(r, "get")
    /\ \E late \in Elapse(loc[r].late) :
       LET doc == DocOf(r)
           locals == [loc[r] EXCEPT !.late = late]
       IN  IF ~doc.get_ok
           THEN Fail(r, locals, "Failed to download PDF")
           ELSE IF doc.content_length # None /\ doc.content_length[1] > MAX_FILE_SIZE
           THEN Fail(r, locals, "Error downloading PDF: File too large")
           ELSE /\ pc' = [pc EXCEPT ![r] = "stream"]
                /\ loc' = [loc EXCEPT ![r] = locals]
    /\ UNCHANGED <<index_vars, unit_vars, text_vars, setup, running, raw, req, resp, produced>>

\* one turn of `for chunk in response.iter_content(chunk_size=8192)`
ReadBlock(r) ==
    /\ ~Blocked(r)
    /\ pc[r] = "stream"
    /\ loc[r].nb < Len(DocOf(r).blocks)
    /\ LET block == DocOf(r).blocks[loc[r].nb + 1]
           taken == [loc[r] EXCEPT !.nb = @ + 1]
           total_size == loc[r].total_size + block
       IN  IF block = 0
           THEN pc' = pc /\ loc' = [loc EXCEPT ![r] = taken]
           ELSE IF SizeExceeded(total_size)
           THEN Fail(r, [taken EXCEPT !.total_size = total_size],
                     "Error downloading PDF: File too large")
           ELSE /\ pc' = pc
                /\ loc' = [loc EXCEPT ![r] =
                             [taken EXCEPT !.total_size = total_size,
                                           !.pdf_content = @ + block]]
    /\ UNCHANGED <<index_vars, unit_vars, text_vars, setup, running, raw, req, resp, log, produced>>

\* download_pdf returns; extract_text_from_pdf and the test of text_pages
Extract(r) ==
    /\ ~Blocked(r)
    /\ pc[r] = "stream"
    /\ loc[r].nb = Len(DocOf(r).blocks)
    /\ log' = Bump(r, "extract")
    /\ LET pdf == DocOf(r).pdf IN
       IF ~pdf.opens
       THEN Fail(r, loc[r], "Failed to extract text from PDF")
       ELSE LET text_pages == ExtractTextFromPdf(pdf.pages) IN
            IF text_pages = <<>>
            THEN Fail(r, loc[r], "No text could be extracted from the PDF")
            ELSE /\ pc' = [pc EXCEPT ![r] = "chunk"]
                 /\ loc' = [loc EXCEPT ![r].text_pages = text_pages]
    /\ UNCHANGED <<index_vars, unit_vars, text_vars, setup, running, raw, req, resp, produced>>

\* `if not chunks` in process_pdf
NoChunksIgnored(cs) == FALSE
NoChunks(cs) == cs = <<>>

\* chunk_text and the test of chunks; process_pdf returns
Chunk(r) ==
    /\ ~Blocked(r)
    /\ pc[r] = "chunk"
    /\ log' = Bump(r, "chunk")
    /\ LET cs == ChunkText(loc[r].text_pages) IN
       IF NoChunks(cs)
       THEN Fail(r, loc[r], "No valid chunks could be created from the PDF")
       ELSE /\ pc' = [pc EXCEPT ![r] = "index"]
            /\ loc' = [loc EXCEPT ![r].chunks = cs]
    /\ UNCHANGED <<index_vars, unit_vars, text_vars, setup, running, raw, req, resp, produced>>

\* Step 2 of process_qa_request: create_vector_index(chunks)
Index(r) ==
    /\ ~Blocked(r)
    /\ pc[r] = "index"
    /\ \E outcomes \in BuildOutcomes(loc[r].chunks) :
         CreateVectorIndex(loc[r].chunks, outcomes)
    /\ log' = Bump(r, "index")
    /\ pc' = [pc EXCEPT ![r] = "questions"]
    /\ UNCHANGED <<unit_vars, text_vars, setup, running, raw, req, loc, resp, produced>>

\* for i, question in enumerate(request.questions, 1): the question of the
\* turn that follows i turns
QuestionFromEnd(questions, i) == questions[Len(questions) - i]
QuestionAt(questions, i) == questions[i + 1]

\* Step 3, one question: get_context_for_question, _generate_answer, append
Question(r) ==
    /\ ~Blocked(r)
    /\ pc[r] = "questions"
    /\ loc[r].i < Len(req[r].questions)
    /\ LET question == QuestionAt(req[r].questions, loc[r].i) IN
       \E emb_outcome \in QueryOutcomes(question), gen_outcome \in GenOutcomes :
         LET found == SearchSimilarChunks(chunks, embeddings, client, question,
                                          TOP_K_CHUNKS, emb_outcome)
             answer == AnswerQuestion(chunks, embeddings, client, question,
                                      emb_outcome, gen_outcome)
         IN  /\ loc' = [loc EXCEPT ![r].i = @ + 1,
                                   ![r].answers = AppendAnswer(@, answer)]
             /\ produced' = [produced EXCEPT ![r] = Append(@,
                    [question |-> question, retrieval |-> found.state,
                     gen |-> IF found.state = "raised" THEN ModelRaises ELSE gen_outcome,
                     called |-> found.state # "raised",
                     answer |-> answer])]
             /\ log' = [log EXCEPT ![r].search = @ + 1,
                                   ![r].generate = @ + (IF found.state = "raised" THEN 0 ELSE 1)]
             /\ embeddings' = EmbeddingsAfterSearch(embeddings, found)
    /\ UNCHANGED <<chunks, client, unit_vars, text_vars, setup, running, pc, raw, req, resp>>

\* Step 4: self.embedding_service.clear_index()
CleanUpSkipped == UNCHANGED index_vars
CleanUpIndex == ClearIndex

\* the loop is over: clean up and return QAResponse(answers=answers)
CleanUp(r) ==
    /\ ~Blocked(r)
    /\ pc[r] = "questions"
    /\ loc[r].i = Len(req[r].questions)
    /\ CleanUpIndex
    /\ pc' = [pc EXCEPT ![r] = "return"]
    /\ running' = 0
    /\ UNCHANGED <<unit_vars, text_vars, setup, raw, req, loc, resp, log, produced>>

\* the handler of process_qa_request: clear the index and raise again
ProcessExcept(r) ==
    /\ ~Blocked(r)
    /\ pc[r] = "except"
    /\ ClearIndex
    /\ pc' = [pc EXCEPT ![r] = "raise"]
    /\ running' = 0
    /\ UNCHANGED <<unit_vars, text_vars, setup, raw, req, loc, resp, log, produced>>

\* wait_for gives the response; run_qa returns it
RunQaReturn(r) ==
    /\ ~Blocked(r)
    /\ pc[r] = "return"
    /\ resp' = [resp EXCEPT ![r] = [status |-> 200, answers |-> loc[r].answers]]
    /\ pc' = [pc EXCEPT ![r] = "responded"]
    /\ UNCHANGED <<index_vars, unit_vars, text_vars, setup, running, raw, req, loc, log, produced>>

\* wait_for raises what process_qa_request raised; the handlers of run_qa
RunQaExcept(r) ==
    /\ ~Blocked(r)
    /\ pc[r] = "raise"
    /\ resp' = [resp EXCEPT ![r] =
                  IF loc[r].error.type = "ValueError"
                  THEN [status |-> 400, detail |-> loc[r].error.msg]
                  ELSE [status |-> 500,
                        detail |-> "Internal server error occurred while processing the request"]]
    /\ pc' = [pc EXCEPT ![r] = "responded"]
    /\ UNCHANGED <<index_vars, unit_vars, text_vars, setup, running, raw, req, loc, log, produced>>

\* the response is sent; the slot takes the next request
Forget(r) ==
    /\ ~Blocked(r)
    /\ pc[r] = "responded"
    /\ pc' = [pc EXCEPT ![r] = "idle"]
    /\ raw' = [raw EXCEPT ![r] = None]
    /\ req' = [req EXCEPT ![r] = None]
    /\ loc' = [loc EXCEPT ![r] = NoLocals]
    /\ resp' = [resp EXCEPT ![r] = None]
    /\ log' = [log EXCEPT ![r] = NoLog]
    /\ produced' = [produced EXCEPT ![r] = <<>>]
    /\ UNCHANGED <<index_vars, unit_vars, text_vars, setup, running>>

Init ==
    /\ IndexInit
    /\ NoUnit
    /\ SlotsIdle
    /\ setup = [slots |-> {1}, requests |-> Bodies]

Next ==
    \E r \in Slots :
        \/ Receive(r) \/ RunQa(r) \/ Begin(r)
        \/ HttpGet(r) \/ ReadBlock(r) \/ Extract(r) \/ Chunk(r)
        \/ Index(r) \/ Question(r) \/ CleanUp(r) \/ ProcessExcept(r)
        \/ RunQaReturn(r) \/ RunQaExcept(r) \/ Forget(r)

Spec == Init /\ [][Next]_vars

(***************************************************************************)
(* Properties of the pipeline                                              *)
(***************************************************************************)
Responded(r, status) == pc[r] = "responded" /\ resp[r].status = status

A_Yes == <<"Y", "e", "s">>
A_No == <<"N", "o">>

\* C1: a request that process_qa_request completes is answered with one
\* answer per question, and the i-th answer is the one produced for the
\* i-th question, whatever questions failed.
C1_AnswersPositional ==
    \A r \in Slots :
        Responded(r, 200) =>
            /\ Len(resp[r].answers) = Len(req[r].questions)
            /\ Len(produced[r]) = Len(req[r].questions)
            /\ \A i \in 1..Len(req[r].questions) :
                   /\ produced[r][i].question = req[r].questions[i]
                   /\ resp[r].answers[i] = produced[r][i].answer

\* two questions, the first answered and the second failed
C1_Witness ==
    /\ Responded(1, 200)
    /\ req[1].questions = <<Q_fee_due, <<"d", "o", "g">>>>
    /\ resp[1].answers = <<A_Yes, NOT_FOUND>>

\* the model call of this iteration raised or gave no text
GenFailed(p) == IF p.gen.kind = "raise" THEN TRUE ELSE p.gen.text = <<>>

\* what a model text that is not empty becomes, written out for the texts
\* of GenOutcomes
CleanedText(text) ==
    IF text = <<"N", "o">> THEN A_No
    ELSE IF text = <<" ">> THEN <<>>
    ELSE A_Yes

C3_IndexCleared ==
    running = 0 => chunks = <<>> /\ embeddings = <<>>

\* a request that built an index has been answered and the index is empty
C3_Witness ==
    /\ Responded(1, 200)
    /\ log[1].index = 1
    /\ Len(loc[1].chunks) = 3
    /\ chunks = <<>>
    /\ embeddings = <<>>

\* the body is one the QARequest validators refuse, said from the body
InvalidBody(body) ==
    \/ Len(body.questions) > 10
    \/ Len(body.questions) = 0
    \/ \E i \in 1..Len(body.questions) :
           Len(Strip(body.questions[i])) < 3
    \/ body.documents.scheme \notin {"http", "https", "HTTP", "HTTPS"}
    \/ body.documents.host = "malformed"

\* C4: a request with an invalid questions list or a malformed URL is
\* answered with a validation error (422) and nothing of the pipeline ran
\* for it: no download, extraction, chunking, indexing, search or model call.
C4_RejectedBeforeFetch ==
    \A r \in Slots :
        (raw[r] # None /\ InvalidBody(raw[r])) =>
            /\ Responded(r, 422)
            /\ log[r] = NoLog
            /\ req[r] = None
            /\ loc[r] = NoLocals

\* 11 questions: refused, nothing fetched
C4_Witness ==
    /\ Responded(1, 422)
    /\ Len(raw[1].questions) = MAX_QUESTIONS + 1
    /\ log[1].get = 0

RECURSIVE PrefixSum(_, _)
PrefixSum(blocks, n) == IF n = 0 THEN 0 ELSE PrefixSum(blocks, n - 1) + blocks[n]

FileTooLarge == ValueError("Error downloading PDF: File too large")

\* C5: the buffer never holds more than max_file_size bytes; a declared
\* length over the limit stops the download before any block is read; the
\* first block that takes the running total over the limit stops it at
\* that block; either way the request fails with the acquisition error and
\* neither extraction nor chunking runs.
C5_SizeCeiling ==
    \A r \in Slots :
        /\ loc[r].pdf_content <= MAX_FILE_SIZE
        /\ (req[r] # None /\ log[r].get > 0) =>
             LET doc == Docs(req[r].documents.doc)
                 declared_big == IF doc.content_length = None THEN FALSE
                                 ELSE doc.content_length[1] > MAX_FILE_SIZE
                 nb == loc[r].nb
             IN  /\ declared_big =>
                       /\ nb = 0
                       /\ loc[r].error = FileTooLarge
                 /\ nb > 0 => PrefixSum(doc.blocks, nb - 1) <= MAX_FILE_SIZE
                 /\ loc[r].pdf_content =
                       IF PrefixSum(doc.blocks, nb) <= MAX_FILE_SIZE
                       THEN PrefixSum(doc.blocks, nb)
                       ELSE PrefixSum(doc.blocks, nb - 1)
                 /\ (declared_big \/ PrefixSum(doc.blocks, nb) > MAX_FILE_SIZE) =>
                       /\ loc[r].error = FileTooLarge
                       /\ pc[r] \in {"except", "raise", "responded"}
                       /\ pc[r] = "responded" => resp[r].status = 400
                       /\ log[r].extract = 0
                       /\ log[r].chunk = 0
                       /\ log[r].index = 0

\* the limit is passed in the middle of the stream, with a full buffer
C5_Witness ==
    /\ pc[1] = "except"
    /\ loc[1].nb = 3
    /\ loc[1].total_size = MAX_FILE_SIZE + 1
    /\ loc[1].pdf_content = MAX_FILE_SIZE
    /\ loc[1].error = FileTooLarge

\* C8: the index build starts only with a chunk sequence that is not
\* empty; a document with no text on any page, or with no chunk of 10 words
\* or more, fails with the error of process_pdf and is never indexed.
C8_NoEmptyIndexBuild ==
    \A r \in Slots :
        /\ pc[r] = "index" => loc[r].chunks # <<>>
        /\ log[r].index > 0 => loc[r].chunks # <<>>
        /\ (req[r] # None /\ req[r].documents.doc = "blank" /\ log[r].extract > 0) =>
              /\ loc[r].error = ValueError("No text could be extracted from the PDF")
              /\ log[r].chunk = 0
              /\ log[r].index = 0
        /\ (req[r] # None /\ req[r].documents.doc = "exact" /\ log[r].chunk > 0) =>
              /\ loc[r].error = ValueError("No valid chunks could be created from the PDF")
              /\ log[r].index = 0

\* a page of five words: chunking ran, gave nothing, and the request failed
C8_Witness ==
    /\ Responded(1, 400)
    /\ resp[1].detail = "No valid chunks could be created from the PDF"
    /\ log[1].chunk = 1
    /\ log[1].index = 0
    /\ chunks = <<>>

Failed(r) == pc[r] \in {"except", "raise"} \/ (pc[r] = "responded" /\ resp[r].status = 400)

\* C17: the stages of a request run in the order acquire, extract and chunk,
\* index, questions; the document is fetched and indexed once; the questions
\* are taken one at a time in input order; a request that failed in a stage
\* before the questions answered none, is answered with an error and no
\* answers, and the index is empty when the error leaves process_qa_request.
C17_StagesInOrder ==
    \A r \in Slots :
        LET L == log[r] IN
        /\ L.get <= 1 /\ L.extract <= L.get /\ L.chunk <= L.extract /\ L.index <= L.chunk
        /\ L.search > 0 => L.index = 1
        /\ L.search = loc[r].i /\ L.search = Len(produced[r]) /\ L.generate <= L.search
        /\ \A i \in 1..Len(produced[r]) : produced[r][i].question = req[r].questions[i]
        /\ pc[r] \in {"run_qa", "scheduled", "get"} => L = NoLog
        /\ pc[r] = "stream" => L.get = 1 /\ L.extract = 0
        /\ pc[r] = "chunk" => L.extract = 1 /\ L.chunk = 0
        /\ pc[r] = "index" => L.chunk = 1 /\ L.index = 0
        /\ pc[r] = "questions" => L.index = 1
        /\ pc[r] = "return" => L.search = Len(req[r].questions)
        /\ Failed(r) =>
              /\ L.index = 0 /\ L.search = 0 /\ L.generate = 0
              /\ loc[r].answers = <<>>
              /\ loc[r].error.type = "ValueError"
              /\ pc[r] \in {"raise", "responded"} => chunks = <<>> /\ embeddings = <<>>
              /\ pc[r] = "responded" => "answers" \notin DOMAIN resp[r]

\* fitz could not open the bytes: the error is on its way to run_qa, nothing
\* was chunked or indexed
C17_Witness ==
    /\ pc[1] = "raise"
    /\ loc[1].error = ValueError("Failed to extract text from PDF")
    /\ log[1] = [NoLog EXCEPT !.get = 1, !.extract = 1]
    /\ chunks = <<>>

\* C18: a request whose handling took longer than the 30 s of wait_for is
\* answered with 408 and no answers.
C18_TimeoutSurfaces ==
    \A r \in Slots :
        (pc[r] = "responded" /\ loc[r].late) =>
            /\ resp[r].status = 408
            /\ "answers" \notin DOMAIN resp[r]

(***************************************************************************)
(* Two requests in flight on the one module-level QAService                *)
(***************************************************************************)
TwoBodies ==
    {Body(Url("https", "domain", "ok2"), <<Q_fee_due>>),
     Body(Url("https", "domain", "ok3"), <<Q_dog>>),
     Body(Url("http", "ip", "gone"), <<Q_dog>>)}

InitTwo ==
    /\ IndexInit
    /\ NoUnit
    /\ SlotsIdle
    /\ setup = [slots |-> {1, 2}, requests |-> TwoBodies]

SpecTwo == InitTwo /\ [][Next]_vars

\* the chunks of the document a request names
OwnChunks(r) == ChunkText(ExtractTextFromPdf(Docs(req[r].documents.doc).pdf.pages))

\* the question of the loop turn that a step has just added to produced[r]
Asked(r) == produced[r][Len(produced[r])].question

\* C19: with two requests in flight, while a request answers its questions
\* the index holds the chunks of its own document, every retrieval made for
\* it returns chunks of its own document only, and no step taken while it
\* is still answering changes the index.
C19_NoCrossRequest ==
    /\ [](\A r \in Slots :
            pc[r] = "questions" =>
                /\ chunks = OwnChunks(r)
                /\ Len(embeddings) = Len(chunks)
                /\ \A o \in Slots \ {r} : pc[o] \notin {"get", "stream", "chunk", "index", "questions", "except"})
    /\ [][\A r \in Slots :
            /\ Len(produced'[r]) = Len(produced[r]) + 1 =>
                  \A outcome \in QueryOutcomes(Asked(r)') :
                      Range(SearchSimilarChunks(chunks, embeddings, client, Asked(r)',
                                                TOP_K_CHUNKS, outcome).value)
                          \subseteq Range(OwnChunks(r))
            /\ (pc[r] = "questions" /\ pc'[r] = "questions") =>
                  chunks' = chunks /\ embeddings' = embeddings]_vars

\* one request is answering its question on its own three chunks while the
\* other, for another document, waits for the event loop
C19_Witness ==
    /\ pc[1] = "questions"
    /\ req[1].documents.doc = "ok3"
    /\ Len(chunks) = 3
    /\ pc[2] = "scheduled"
    /\ req[2].documents.doc = "ok2"

(***************************************************************************)
(* The keyword-only EmbeddingService (HealthLink/app/services/embeddings.py)*)
(* beside the semantic one, the provider absent or failing on every call    *)
(***************************************************************************)
\* create_vector_index: self.chunks = chunks
TextCreateVectorIndex(cs) == cs

\* clear_index: self.chunks = []
TextClearIndex == <<>>

RECURSIVE TextScore(_, _, _, _)
\* the scoring loop: for chunk in self.chunks, append (chunk, overlap) when
\* the query and the chunk share a lower-cased word
TextScore(cs, i, query_words, scored_chunks) ==
    IF i > Len(cs) THEN scored_chunks
    ELSE LET chunk_words == {Lower(w) : w \in Range(cs[i].content)}
             overlap == Cardinality(query_words \cap chunk_words)
         IN  IF overlap > 0
             THEN TextScore(cs, i + 1, query_words, Append(scored_chunks, <<cs[i], overlap>>))
             ELSE TextScore(cs, i + 1, query_words, scored_chunks)

TextFillNothing(cs, i, similar_chunks, top_k) == similar_chunks

\* "If not enough keyword matches, add remaining chunks"; used_chunk_ids is
\* taken before the loop
TextFillRemaining(cs, i, similar_chunks, top_k) ==
    LET Fill(j, acc, used) ==
            IF cs[j].chunk_id \notin used /\ Len(acc) < top_k THEN Append(acc, cs[j]) ELSE acc
        RECURSIVE Loop(_, _, _)
        Loop(j, acc, used) ==
            IF j > Len(cs) THEN acc ELSE Loop(j + 1, Fill(j, acc, used), used)
    IN  Loop(i, similar_chunks, {similar_chunks[j].chunk_id : j \in 1..Len(similar_chunks)})

\* search_similar_chunks of the keyword-only service
TextSearchSimilarChunks(cs, query, top_k) ==
    IF cs = <<>>
    THEN Raised("Failed to search similar chunks: Text index not initialized. Create index first.")
    ELSE LET query_words == Range(Split(Lower(query)))
             scored_chunks == SortByScoreDesc(TextScore(cs, 1, query_words, <<>>))
             similar_chunks == [j \in 1..Min(top_k, Len(scored_chunks)) |-> scored_chunks[j][1]]
             filled == IF Len(similar_chunks) < top_k
                       THEN TextFillRemaining(cs, 1, similar_chunks, top_k)
                       ELSE similar_chunks
         IN  Returned(Slice(filled, 0, top_k))

\* the provider raises for every chunk
AllRaise(cs) == [i \in 1..Len(cs) |-> ProviderRaises]

BothInit ==
    /\ chunks = <<>>
    /\ embeddings = <<>>
    /\ client \in {<<"genai.Client">>, None}
    /\ text_chunks = <<>>
    /\ NoRequests
    /\ call = [op |-> "__init__"]
    /\ ret = Pending

\* the same build on both services
BothCreate ==
    \E cs \in ChunkLists :
        /\ CreateVectorIndex(cs, AllRaise(cs))
        /\ text_chunks' = TextCreateVectorIndex(cs)
        /\ call' = [op |-> "create_vector_index", n |-> Len(cs)]
        /\ ret' = [state |-> "both", semantic |-> Returned(None), text |-> Returned(None)]
        /\ UNCHANGED req_vars

\* the same search on both services
BothSearch ==
    \E query \in Queries, top_k \in TopKs :
        /\ call' = [op |-> "search_similar_chunks", query |-> query, top_k |-> top_k,
                    outcome |-> ProviderRaises]
        /\ ret' = [state |-> "both",
                   semantic |-> SearchSimilarChunks(chunks, embeddings, client, query, top_k,
                                                    ProviderRaises),
                   text |-> TextSearchSimilarChunks(text_chunks, query, top_k)]
        /\ embeddings' = EmbeddingsAfterSearch(embeddings, ret'.semantic)
        /\ UNCHANGED <<chunks, client, text_vars, req_vars>>

\* clear_index on both services
BothClear ==
    /\ ClearIndex
    /\ text_chunks' = TextClearIndex
    /\ call' = [op |-> "clear_index"]
    /\ ret' = [state |-> "both", semantic |-> Returned(None), text |-> Returned(None)]
    /\ UNCHANGED req_vars

BothNext == BothCreate \/ BothSearch \/ BothClear

SpecBoth == BothInit /\ [][BothNext]_vars

\* C20: with the provider absent or failing on every call, after any
\* sequence of builds on non-empty chunk lists, searches and clears applied
\* to both services, the two hold the same chunks and a search either raises
\* in both or returns the same chunk sequence in both.
C20_SameAsKeywordOnly ==
    /\ text_chunks = chunks
    /\ ret.state = "both" =>
          /\ ret.semantic.state = ret.text.state
          /\ ret.semantic.state = "returned" => ret.semantic.value = ret.text.value

\* a search that both answer with a scored chunk ahead of a padded one
C20_Witness ==
    /\ call.op = "search_similar_chunks"
    /\ Len(chunks) = 2
    /\ call.top_k = TOP_K_CHUNKS
    /\ ret.text.state = "returned"
    /\ Len(ret.text.value) = 2
    /\ ret.text.value[1].chunk_id = 1
    /\ ret.semantic.mode = "keyword"

====
